---- MODULE Spec2Model ----
(***************************************************************************)
(* Model of backend/main.py: the market basket analysis service.           *)
(*                                                                         *)
(* A raw table (the DataFrame read from the uploaded CSV) is encoded to a  *)
(* 0/1 matrix by detect_and_encode, mined by mlxtend's apriori, turned     *)
(* into rules by mlxtend's association_rules and stored in the global      *)
(* STATE.  Python floats are modelled by exact rationals <<n, d>>, d > 0.  *)
(***************************************************************************)
EXTENDS Integers, Sequences, FiniteSets, TLC

(***************************************************************************)
(* Bounds of the model.                                                    *)
(***************************************************************************)
MaxRows == 3

(***************************************************************************)
(* Rational arithmetic, standing for the float arithmetic of the code.     *)
(***************************************************************************)
Rat(n, d) == <<n, d>>
RGeq(a, b) == a[1] * b[2] >= b[1] * a[2]
RGt(a, b) == a[1] * b[2] > b[1] * a[2]
REq(a, b) == a[1] * b[2] = b[1] * a[2]
\* Python's max(a, b) and min(a, b): the first argument wins a tie
RMax(a, b) == IF RGt(b, a) THEN b ELSE a
RMin(a, b) == IF RGt(a, b) THEN b ELSE a
RMul(a, b) == <<a[1] * b[1], a[2] * b[2]>>
RDiv(a, b) == <<a[1] * b[2], a[2] * b[1]>>

(***************************************************************************)
(* Strings.  A Python str is a TLA+ string; the operators below compute    *)
(* str.strip, str.split(","), the `in` substring test and str.lower on it. *)
(***************************************************************************)
Contains(s, p) ==
    \E i \in 1..(Len(s) - Len(p) + 1) : SubSeq(s, i, i + Len(p) - 1) = p

StartsWith(s, p) == Len(s) >= Len(p) /\ SubSeq(s, 1, Len(p)) = p

RECURSIVE LStrip(_)
LStrip(s) ==
    IF Len(s) = 0 THEN s
    ELSE IF Head(s) = " " THEN LStrip(Tail(s)) ELSE s

RECURSIVE RStrip(_)
RStrip(s) ==
    IF Len(s) = 0 THEN s
    ELSE IF SubSeq(s, Len(s), Len(s)) = " " THEN RStrip(SubSeq(s, 1, Len(s) - 1))
    ELSE s

Strip(s) == RStrip(LStrip(s))

\* s.split(","): the pieces between commas, empty pieces included
RECURSIVE SplitFrom(_, _, _)
SplitFrom(s, start, i) ==
    IF i > Len(s) THEN <<SubSeq(s, start, Len(s))>>
    ELSE IF SubSeq(s, i, i) = ","
         THEN <<SubSeq(s, start, i - 1)>> \o SplitFrom(s, i + 1, i + 1)
         ELSE SplitFrom(s, start, i + 1)

Split(s) == SplitFrom(s, 1, 1)

UpperChars == "ABCDEFGHIJKLMNOPQRSTUVWXYZ"
LowerChars == "abcdefghijklmnopqrstuvwxyz"

LowerChar(c) ==
    IF \E i \in 1..Len(UpperChars) : SubSeq(UpperChars, i, i) = c
    THEN LET i == CHOOSE j \in 1..Len(UpperChars) : SubSeq(UpperChars, j, j) = c
         IN  SubSeq(LowerChars, i, i)
    ELSE c

RECURSIVE Lower(_)
Lower(s) ==
    IF Len(s) = 0 THEN s
    ELSE LowerChar(SubSeq(s, 1, 1)) \o Lower(Tail(s))

\* code point order of the characters that occur in the model's strings
CharOrder == " ,-.0123456789:ABCDEFGHIJKLMNOPQRSTUVWXYZ_abcdefghijklmnopqrstuvwxyz"

\* ord(c), as the position of c in CharOrder
RECURSIVE CharRanksFrom(_)
CharRanksFrom(i) ==
    IF i = Len(CharOrder) THEN SubSeq(CharOrder, i, i) :> i
    ELSE (SubSeq(CharOrder, i, i) :> i) @@ CharRanksFrom(i + 1)

CharRanks == CharRanksFrom(1)

CharRank(c) == CharRanks[c]

\* Python's s < t on str
RECURSIVE StrLess(_, _)
StrLess(s, t) ==
    IF Len(t) = 0 THEN FALSE
    ELSE IF Len(s) = 0 THEN TRUE
    ELSE IF Head(s) = Head(t) THEN StrLess(Tail(s), Tail(t))
    ELSE CharRank(Head(s)) < CharRank(Head(t))

\* sorted(S) for a set of strings
RECURSIVE SortedStrings(_)
SortedStrings(S) ==
    IF S = {} THEN <<>>
    ELSE LET m == CHOOSE x \in S : \A y \in S \ {x} : StrLess(x, y)
         IN  <<m>> \o SortedStrings(S \ {m})

Range(f) == {f[i] : i \in DOMAIN f}

\* the sequence q with its elements computed (the same sequence)
List(q) == SubSeq(q, 1, Len(q))

RECURSIVE SeqSum(_)
SeqSum(q) == IF q = <<>> THEN 0 ELSE Head(q) + SeqSum(Tail(q))

(***************************************************************************)
(* Raw tables (pandas DataFrame read from the CSV).  A cell is missing     *)
(* (NaN), a number or a str; a column holding a str cell has dtype object. *)
(***************************************************************************)
NaN == [k |-> "nan", s |-> "", n |-> 0]
Num(n) == [k |-> "num", s |-> "", n |-> n]
Str(s) == [k |-> "str", s |-> s, n |-> 0]

NRows(df) == Len(df.data)
NCols(df) == Len(df.columns)
Column(df, j) == [i \in 1..NRows(df) |-> df.data[i][j]]

\* DataFrame.empty looking at the columns only
IsEmpty_columns(df) == NCols(df) = 0

\* DataFrame.empty: some axis has length 0
IsEmpty(df) == NRows(df) = 0 \/ NCols(df) = 0

IsObject(df, j) == \E i \in 1..NRows(df) : df.data[i][j].k = "str"

EmptyDF == [columns |-> <<>>, values |-> <<>>]
Ok(df) == [ok |-> TRUE, err |-> "", df |-> df]
Fail(msg) == [ok |-> FALSE, err |-> msg, df |-> EmptyDF]

\* the sub-sequence of q at the (ascending) positions in P
RECURSIVE Pick(_, _, _)
Pick(q, P, i) ==
    IF i > Len(q) THEN <<>>
    ELSE (IF i \in P THEN <<q[i]>> ELSE <<>>) \o Pick(q, P, i + 1)

_to_bool01(x) ==
    IF x.k = "nan" THEN 0
    ELSE IF x.k = "num" THEN (IF x.n # 0 THEN 1 ELSE 0)
    ELSE IF Lower(Strip(x.s)) \in {"1", "true", "yes", "y", "t", "x"} THEN 1 ELSE 0

transactional_to_onehot(transactions) ==
    LET kept == SelectSeq(transactions, LAMBDA t : t # <<>>)
    IN  IF kept = <<>> THEN Fail("No valid transactions found in the data")
        ELSE LET columns_ == SortedStrings(UNION {Range(kept[i]) : i \in 1..Len(kept)})
             IN  Ok([columns |-> columns_,
                     values  |-> List([i \in 1..Len(kept) |->
                                    List([j \in 1..Len(columns_) |->
                                       IF columns_[j] \in Range(kept[i]) THEN 1 ELSE 0])])])

\* str(n) of an integer
RECURSIVE IntText(_)
IntText(n) ==
    IF n < 0 THEN "-" \o IntText(0 - n)
    ELSE IF n < 10 THEN SubSeq("0123456789", n + 1, n + 1)
    ELSE IntText(n \div 10) \o IntText(n % 10)

\* str(row) after fillna(""): text of cell i of the comma-split column j; a
\* numeric column with a missing value holds floats
CellText(df, i, j) ==
    LET x == df.data[i][j]
    IN  IF x.k = "str" THEN x.s
        ELSE IF x.k = "nan" THEN ""
        ELSE IF \E l \in 1..NRows(df) : df.data[l][j].k = "nan" THEN IntText(x.n) \o ".0"
        ELSE IntText(x.n)

\* SplitItems keeping the blanks around each item
SplitItems_unstripped(text) == SelectSeq(Split(text), LAMBDA it : Strip(it) # "")

\* [item.strip() for item in str(row).split(",") if item.strip()]
SplitItems(text) ==
    LET parts == Split(text)
        stripped == List([i \in 1..Len(parts) |-> Strip(parts[i])])
    IN  SelectSeq(stripped, LAMBDA it : it # "")

\* the non-empty item lists of a column, in row order
CommaTransactions(df, j) ==
    LET all == List([i \in 1..NRows(df) |-> SplitItems(CellText(df, i, j))])
    IN  SelectSeq(all, LAMBDA t : t # <<>>)

\* order of the group keys: numbers by value, str by Python's <
KeyLess(a, b) ==
    IF a.k = "num" /\ b.k = "num" THEN a.n < b.n
    ELSE IF a.k = "str" /\ b.k = "str" THEN StrLess(a.s, b.s)
    ELSE a.k = "num"

RECURSIVE SortedKeys(_)
SortedKeys(S) ==
    IF S = {} THEN <<>>
    ELSE LET m == CHOOSE x \in S : \A y \in S \ {x} : KeyLess(x, y)
         IN  <<m>> \o SortedKeys(S \ {m})

\* df.groupby(cols[0])[cols[1]].apply(list).tolist(): one list per distinct
\* key, keys sorted, rows with a missing key dropped.  The item column is
\* taken to hold str cells.
GroupTransactions(df) ==
    LET keys == SortedKeys({df.data[i][1] : i \in 1..NRows(df)} \ {NaN})
        col2 == List([i \in 1..NRows(df) |-> df.data[i][2].s])
    IN  List([g \in 1..Len(keys) |->
           Pick(col2, {i \in 1..NRows(df) : df.data[i][1] = keys[g]}, 1)])

\* case 4: the table is taken as already one-hot encoded
AlreadyEncoded(df) ==
    LET values == List([i \in 1..NRows(df) |->
                     List([j \in 1..NCols(df) |->
                        IF IsObject(df, j) THEN _to_bool01(df.data[i][j])
                        ELSE IF df.data[i][j].k = "num" /\ df.data[i][j].n > 0 THEN 1 ELSE 0])])
        total == SeqSum([i \in 1..NRows(df) |-> SeqSum(values[i])])
    IN  IF total = 0 THEN Fail("No items found in any transaction after encoding")
        ELSE Ok([columns |-> df.columns, values |-> values])

\* df.loc[:, ~df.columns.str.contains('^Unnamed')]
DropUnnamed(df0) ==
    LET keep == {j \in 1..NCols(df0) : ~StartsWith(df0.columns[j], "Unnamed")}
    IN  [columns |-> Pick(df0.columns, keep, 1),
         data    |-> [i \in 1..NRows(df0) |-> Pick(df0.data[i], keep, 1)]]

detect_and_encode(df0) ==
    IF IsEmpty(df0) THEN Fail("Empty dataframe provided")
    ELSE
    LET df == DropUnnamed(df0)
        items_cols == {j \in 1..NCols(df) : Contains(Lower(df.columns[j]), "item")}
    IN  IF NCols(df) = 2 /\ (Contains(Lower(df.columns[2]), "item")
                              \/ Contains(Lower(df.columns[2]), "product"))
        THEN transactional_to_onehot(GroupTransactions(df))
        ELSE IF NCols(df) = 1
        THEN LET transactions == CommaTransactions(df, 1)
             IN  IF transactions = <<>> THEN Fail("No valid transactions found")
                 ELSE transactional_to_onehot(transactions)
        ELSE LET transactions ==
                     IF items_cols = {} THEN <<>>
                     ELSE CommaTransactions(df, CHOOSE j \in items_cols : \A l \in items_cols : j <= l)
             IN  IF transactions # <<>> THEN transactional_to_onehot(transactions)
                 ELSE AlreadyEncoded(df)

(***************************************************************************)
(* mlxtend.frequent_patterns.apriori(df, min_support, use_colnames=True).  *)
(* A combination is an ascending sequence of column positions.             *)
(***************************************************************************)
RECURSIVE Concat(_)
Concat(qs) == IF qs = <<>> THEN <<>> ELSE Head(qs) \o Concat(Tail(qs))

\* the ascending sequence of a set of integers
RECURSIVE AscSeq(_)
AscSeq(S) ==
    IF S = {} THEN <<>>
    ELSE LET m == CHOOSE x \in S : \A y \in S : x <= y
         IN  <<m>> \o AscSeq(S \ {m})

\* _support: fraction of the rows holding a 1 in every column of combo
ColSupport(df, combo) ==
    Rat(Cardinality({i \in 1..Len(df.values) :
                        \A k \in 1..Len(combo) : df.values[i][combo[k]] = 1}),
        Len(df.values))

\* every combination of the previous level extended by each larger column
\* that occurs in the previous level
generate_new_combinations(old_combinations) ==
    LET items_types_in_previous_step ==
            UNION {Range(old_combinations[i]) : i \in 1..Len(old_combinations)}
    IN  Concat([i \in 1..Len(old_combinations) |->
           LET old == old_combinations[i]
               valid_items == AscSeq({x \in items_types_in_previous_step : x > old[Len(old)]})
           IN  [k \in 1..Len(valid_items) |-> old \o <<valid_items[k]>>]])

\* the while loop: one level per call, until no candidate or none frequent
RECURSIVE AprioriLevels(_, _, _, _)
AprioriLevels(df, min_support, level, acc) ==
    LET combin == generate_new_combinations(level)
        kept == SelectSeq(combin, LAMBDA c : RGeq(ColSupport(df, c), min_support))
    IN  IF combin = <<>> \/ kept = <<>> THEN acc
        ELSE AprioriLevels(df, min_support, kept, acc \o kept)

\* apriori reporting for each itemset the support of its first column
apriori_first_column(df, min_support) ==
    LET singles == [j \in 1..Len(df.columns) |-> <<j>>]
        level1 == SelectSeq(singles, LAMBDA c : RGeq(ColSupport(df, c), min_support))
        combos == AprioriLevels(df, min_support, level1, level1)
    IN  [i \in 1..Len(combos) |->
           [support  |-> ColSupport(df, <<combos[i][1]>>),
            itemsets |-> {df.columns[combos[i][k]] : k \in 1..Len(combos[i])}]]

\* apriori keeping a single item only when its support exceeds min_support
apriori_strict(df, min_support) ==
    LET singles == [j \in 1..Len(df.columns) |-> <<j>>]
        level1 == SelectSeq(singles, LAMBDA c : RGt(ColSupport(df, c), min_support))
        combos == AprioriLevels(df, min_support, level1, level1)
    IN  [i \in 1..Len(combos) |->
           [support  |-> ColSupport(df, combos[i]),
            itemsets |-> {df.columns[combos[i][k]] : k \in 1..Len(combos[i])}]]

\* rows [support, itemsets] in level order; <<>> is the empty DataFrame
apriori(df, min_support) ==
    LET singles == [j \in 1..Len(df.columns) |-> <<j>>]
        level1 == SelectSeq(singles, LAMBDA c : RGeq(ColSupport(df, c), min_support))
        combos == AprioriLevels(df, min_support, level1, level1)
    IN  [i \in 1..Len(combos) |->
           [support  |-> ColSupport(df, combos[i]),
            itemsets |-> {df.columns[combos[i][k]] : k \in 1..Len(combos[i])}]]

\* DataFrame.sort_values("support", ascending=False); rows of equal support
\* keep their order.  The place of row i is the number of rows of larger
\* support, plus the earlier rows of equal support, plus one.
SortBySupportDesc(rows) ==
    LET n == Len(rows)
        place(i) == Cardinality({j \in 1..n : RGt(rows[j].support, rows[i].support)})
                    + Cardinality({j \in 1..(i - 1) : REq(rows[j].support, rows[i].support)})
                    + 1
    IN  List([k \in 1..n |-> rows[CHOOSE i \in 1..n : place(i) = k]])

(***************************************************************************)
(* mlxtend.frequent_patterns.association_rules(df, metric="confidence",    *)
(* min_threshold).  leverage and conviction are not modelled.              *)
(***************************************************************************)
\* itertools.combinations(q, r)
RECURSIVE Combinations(_, _)
Combinations(q, r) ==
    IF r = 0 THEN << <<>> >>
    ELSE IF Len(q) < r THEN <<>>
    ELSE LET withHead == Combinations(Tail(q), r - 1)
         IN  [i \in 1..Len(withHead) |-> <<Head(q)>> \o withHead[i]]
             \o Combinations(Tail(q), r)

\* antecedents of itemset k: sizes len(k)-1 down to 1
RECURSIVE Antecedents(_, _)
Antecedents(k, idx) ==
    IF idx < 1 THEN <<>>
    ELSE LET cs == Combinations(SortedStrings(k), idx)
         IN  [i \in 1..Len(cs) |-> Range(cs[i])] \o Antecedents(k, idx - 1)

InDict(fi, S) == \E i \in 1..Len(fi) : fi[i].itemsets = S
\* frequent_items_dict[S]
Lookup(fi, S) == fi[CHOOSE i \in 1..Len(fi) : fi[i].itemsets = S].support

\* RulesOf with the confidence quotient inverted
RulesOf_inverted(fi, row, min_threshold) ==
    LET ants == Antecedents(row.itemsets, Cardinality(row.itemsets) - 1)
        cand == [i \in 1..Len(ants) |->
                   LET sA == Lookup(fi, ants[i])
                       sC == Lookup(fi, row.itemsets \ ants[i])
                       confidence == RDiv(sA, row.support)
                   IN  [antecedents |-> ants[i],
                        consequents |-> row.itemsets \ ants[i],
                        antecedent_support |-> sA,
                        consequent_support |-> sC,
                        support |-> row.support,
                        confidence |-> confidence,
                        lift |-> RDiv(confidence, sC)]]
    IN  SelectSeq(cand, LAMBDA r : RGeq(r.confidence, min_threshold))

\* RulesOf with the lift taken over the antecedent support
RulesOf_liftA(fi, row, min_threshold) ==
    LET ants == Antecedents(row.itemsets, Cardinality(row.itemsets) - 1)
        cand == [i \in 1..Len(ants) |->
                   LET sA == Lookup(fi, ants[i])
                       sC == Lookup(fi, row.itemsets \ ants[i])
                       confidence == RDiv(row.support, sA)
                   IN  [antecedents |-> ants[i],
                        consequents |-> row.itemsets \ ants[i],
                        antecedent_support |-> sA,
                        consequent_support |-> sC,
                        support |-> row.support,
                        confidence |-> confidence,
                        lift |-> RDiv(confidence, sA)]]
    IN  SelectSeq(cand, LAMBDA r : RGeq(r.confidence, min_threshold))

\* the rules of one frequent itemset, filtered by confidence
RulesOf(fi, row, min_threshold) ==
    LET ants == Antecedents(row.itemsets, Cardinality(row.itemsets) - 1)
        cand == [i \in 1..Len(ants) |->
                   LET sA == Lookup(fi, ants[i])
                       sC == Lookup(fi, row.itemsets \ ants[i])
                       confidence == RDiv(row.support, sA)
                   IN  [antecedents |-> ants[i],
                        consequents |-> row.itemsets \ ants[i],
                        antecedent_support |-> sA,
                        consequent_support |-> sC,
                        support |-> row.support,
                        confidence |-> confidence,
                        lift |-> RDiv(confidence, sC)]]
    IN  SelectSeq(cand, LAMBDA r : RGeq(r.confidence, min_threshold))

association_rules(fi, min_threshold) ==
    IF fi = <<>>
    THEN [ok |-> FALSE, err |-> "ValueError", rules |-> <<>>]
    ELSE IF \E i \in 1..Len(fi) : \E A \in (SUBSET fi[i].itemsets) \ {{}, fi[i].itemsets} :
                ~InDict(fi, A)
    THEN [ok |-> FALSE, err |-> "KeyError", rules |-> <<>>]
    ELSE [ok |-> TRUE, err |-> "",
          rules |-> Concat([i \in 1..Len(fi) |-> RulesOf(fi, fi[i], min_threshold)])]

(***************************************************************************)
(* The helpers of main.py that work on the encoded matrix.                 *)
(***************************************************************************)
\* the ascending sequence of the column sums
RECURSIVE InsertAsc(_, _)
InsertAsc(sorted, x) ==
    IF sorted = <<>> THEN <<x>>
    ELSE IF x <= Head(sorted) THEN <<x>> \o sorted
    ELSE <<Head(sorted)>> \o InsertAsc(Tail(sorted), x)

RECURSIVE SortAsc(_)
SortAsc(q) == IF q = <<>> THEN <<>> ELSE InsertAsc(SortAsc(Tail(q)), Head(q))

ColSum(df, j) == Cardinality({i \in 1..Len(df.values) : df.values[i][j] = 1})

\* calculate_optimal_support taking the upper middle frequency as the median
calculate_optimal_support_upper(df_encoded) ==
    LET n_transactions == Len(df_encoded.values)
        sums == SortAsc([j \in 1..Len(df_encoded.columns) |-> ColSum(df_encoded, j)])
        m == Len(sums)
        min_freq == Rat(sums[1], n_transactions)
        median_freq == Rat(sums[m \div 2 + 1], n_transactions)
    IN  [very_low     |-> RMax(Rat(1, 100), RMul(min_freq, Rat(1, 2))),
         low          |-> RMax(Rat(2, 100), min_freq),
         conservative |-> RMax(Rat(5, 100), RMul(median_freq, Rat(3, 10))),
         moderate     |-> RMax(Rat(1, 10), RMul(median_freq, Rat(1, 2))),
         strict       |-> RMax(Rat(2, 10), median_freq)]

calculate_optimal_support(df_encoded) ==
    LET n_transactions == Len(df_encoded.values)
        sums == SortAsc([j \in 1..Len(df_encoded.columns) |-> ColSum(df_encoded, j)])
        m == Len(sums)
        min_freq == Rat(sums[1], n_transactions)
        median_freq == IF m % 2 = 1 THEN Rat(sums[(m + 1) \div 2], n_transactions)
                       ELSE Rat(sums[m \div 2] + sums[m \div 2 + 1], 2 * n_transactions)
    IN  [very_low     |-> RMax(Rat(1, 100), RMul(min_freq, Rat(1, 2))),
         low          |-> RMax(Rat(2, 100), min_freq),
         conservative |-> RMax(Rat(5, 100), RMul(median_freq, Rat(3, 10))),
         moderate     |-> RMax(Rat(1, 10), RMul(median_freq, Rat(1, 2))),
         strict       |-> RMax(Rat(2, 10), median_freq)]

\* build_cooccurrence without the fill_diagonal step
build_cooccurrence_diagonal(df_encoded) ==
    LET X == df_encoded.values
        m == Len(df_encoded.columns)
    IN  [columns |-> df_encoded.columns,
         values  |-> [a \in 1..m |-> [b \in 1..m |->
                        SeqSum([r \in 1..Len(X) |-> X[r][a] * X[r][b]])]]]

\* X.T @ X with the diagonal set to 0
build_cooccurrence(df_encoded) ==
    LET X == df_encoded.values
        m == Len(df_encoded.columns)
    IN  [columns |-> df_encoded.columns,
         values  |-> [a \in 1..m |-> [b \in 1..m |->
                        IF a = b THEN 0
                        ELSE SeqSum([r \in 1..Len(X) |-> X[r][a] * X[r][b]])]]]

\* find_supporting_transactions looking at the antecedent only
find_supporting_transactions_ants(df_encoded, row) ==
    LET all_items == row.antecedents
        cols == {j \in 1..Len(df_encoded.columns) : df_encoded.columns[j] \in all_items}
        mask == {i \in 1..Len(df_encoded.values) : \A j \in cols : df_encoded.values[i][j] = 1}
        idx == AscSeq(mask)
    IN  IF all_items = {} THEN <<>> ELSE [k \in 1..Len(idx) |-> idx[k] - 1]

\* index labels (from 0) of the rows holding every item of the rule
find_supporting_transactions(df_encoded, row) ==
    LET all_items == row.antecedents \cup row.consequents
        cols == {j \in 1..Len(df_encoded.columns) : df_encoded.columns[j] \in all_items}
        mask == {i \in 1..Len(df_encoded.values) : \A j \in cols : df_encoded.values[i][j] = 1}
        idx == AscSeq(mask)
    IN  IF all_items = {} THEN <<>> ELSE [k \in 1..Len(idx) |-> idx[k] - 1]

WithSupporting(df_encoded, rules) ==
    [i \in 1..Len(rules) |->
       [antecedents |-> rules[i].antecedents,
        consequents |-> rules[i].consequents,
        antecedent_support |-> rules[i].antecedent_support,
        consequent_support |-> rules[i].consequent_support,
        support |-> rules[i].support,
        confidence |-> rules[i].confidence,
        lift |-> rules[i].lift,
        supporting_transactions |-> find_supporting_transactions(df_encoded, rules[i])]]

\* clean_for_json: a frozenset becomes the sorted list of its members
clean_itemsets(fi) ==
    [i \in 1..Len(fi) |->
       [support |-> fi[i].support, itemsets |-> SortedStrings(fi[i].itemsets)]]

clean_rules(rules) ==
    [i \in 1..Len(rules) |->
       [antecedents |-> SortedStrings(rules[i].antecedents),
        consequents |-> SortedStrings(rules[i].consequents),
        antecedent_support |-> rules[i].antecedent_support,
        consequent_support |-> rules[i].consequent_support,
        support |-> rules[i].support,
        confidence |-> rules[i].confidence,
        lift |-> rules[i].lift,
        supporting_transactions |-> rules[i].supporting_transactions]]

(***************************************************************************)
(* The global dictionary STATE and the request handlers.  None is <<>>,    *)
(* a present value v is <<v>>.                                             *)
(***************************************************************************)
None == <<>>
Some(v) == <<v>>

VARIABLES
    State,      \* the global "last analysis" dictionary STATE
    request,    \* the POST /upload request the client sends
    response,   \* the response to the last handled request
    encoding,   \* what the last call of detect_and_encode on the table gave
    suspended   \* the uploads waiting at `await file.read()`

vars == <<State, request, response, encoding, suspended>>

InitialSTATE ==
    [df_raw |-> None, df_encoded |-> None, frequent_itemsets |-> None,
     rules |-> None, cooccurrence |-> None, meta |-> None]

HTTPException(status_code, detail) ==
    [status |-> status_code, detail |-> detail, meta |-> None]

JSONResponse(message, meta) ==
    [status |-> 200, detail |-> message, meta |-> Some(meta)]

\* lines 419-429: the itemsets mined and the threshold they were mined with
mine_itemsets(file, df_encoded, support_suggestions, min_support) ==
    LET lowered == IF file.filename # "" /\ Contains(file.filename, "sample_transactions")
                   THEN RMin(min_support, Rat(5, 100))
                   ELSE min_support
        first == apriori(df_encoded, lowered)
    IN  IF first = <<>> /\ RGt(lowered, support_suggestions.very_low)
        THEN [frequent_itemsets |-> apriori(df_encoded, support_suggestions.very_low),
              min_support |-> support_suggestions.very_low]
        ELSE [frequent_itemsets |-> first, min_support |-> lowered]

\* lines 448-471: the rules and the confidence threshold they were filtered with
generate_rules(frequent_itemsets, min_confidence) ==
    IF Len(frequent_itemsets) > 1
    THEN LET first == association_rules(frequent_itemsets, min_confidence)
         IN  IF ~first.ok THEN [rules |-> <<>>, min_confidence |-> min_confidence]
             ELSE IF first.rules = <<>> /\ RGt(min_confidence, Rat(1, 10))
             THEN [rules |-> association_rules(frequent_itemsets, Rat(1, 10)).rules,
                   min_confidence |-> Rat(1, 10)]
             ELSE [rules |-> first.rules, min_confidence |-> min_confidence]
    ELSE [rules |-> <<>>, min_confidence |-> min_confidence]

\* 0 <= x <= 1
InUnitInterval_closed(x) == RGeq(x, Rat(0, 1)) /\ RGeq(Rat(1, 1), x)

\* 0 < x <= 1, the test of both thresholds
InUnitInterval(x) == RGt(x, Rat(0, 1)) /\ RGeq(Rat(1, 1), x)

\* POST /upload: the response and the value of STATE it leaves, from value st
upload_dataset(st, file, min_support, min_confidence) ==
    IF ~InUnitInterval(min_support)
    THEN [resp |-> HTTPException(400, "min_support must be between 0 and 1"), state |-> st]
    ELSE IF ~InUnitInterval(min_confidence)
    THEN [resp |-> HTTPException(400, "min_confidence must be between 0 and 1"), state |-> st]
    ELSE IF IsEmpty(file.table)
    THEN [resp |-> HTTPException(400, "CSV file is empty"), state |-> st]
    ELSE LET enc == detect_and_encode(file.table)
    IN  IF ~enc.ok
        THEN [resp |-> HTTPException(500, "Error processing file: " \o enc.err), state |-> st]
        ELSE
        LET df_encoded == enc.df
            support_suggestions == calculate_optimal_support(df_encoded)
            mined == mine_itemsets(file, df_encoded, support_suggestions, min_support)
        IN  IF mined.frequent_itemsets = <<>>
            THEN [resp |-> HTTPException(400,
                     "Dataset is too sparse. Try reducing min_support or check if data is properly formatted."),
                  state |-> st]
            ELSE
            LET frequent_itemsets == SortBySupportDesc(mined.frequent_itemsets)
                gen == generate_rules(frequent_itemsets, min_confidence)
                rules == WithSupporting(df_encoded, gen.rules)
                meta == [file_name |-> file.filename,
                         n_transactions |-> Len(df_encoded.values),
                         n_items |-> Len(df_encoded.columns),
                         min_support |-> mined.min_support,
                         min_confidence |-> gen.min_confidence,
                         n_frequent_itemsets |-> Len(frequent_itemsets),
                         n_rules |-> Len(rules),
                         support_suggestions |-> Some(support_suggestions)]
            IN  [resp  |-> JSONResponse("Analysis completed successfully", meta),
                 state |-> [df_raw |-> Some(file.table),
                            df_encoded |-> Some(df_encoded),
                            frequent_itemsets |-> Some(clean_itemsets(frequent_itemsets)),
                            rules |-> Some(clean_rules(rules)),
                            cooccurrence |-> Some(build_cooccurrence(df_encoded)),
                            meta |-> Some(meta)]]

\* ",".join(row)
RECURSIVE Join(_)
Join(row) ==
    IF row = <<>> THEN ""
    ELSE IF Len(row) = 1 THEN row[1]
    ELSE row[1] \o "," \o Join(Tail(row))

SAMPLE_DATASETS ==
    [groceries |->
        [name |-> "Grocery Store",
         data |-> << <<"bread", "milk", "eggs">>, <<"bread", "butter", "cheese">>,
                     <<"milk", "eggs", "yogurt">>, <<"bread", "cheese", "butter">>,
                     <<"bread", "milk", "butter">>, <<"eggs", "yogurt", "milk">>,
                     <<"bread", "eggs", "butter">>, <<"milk", "cheese", "yogurt">> >>],
     electronics |->
        [name |-> "Electronics Store",
         data |-> << <<"laptop", "mouse", "keyboard">>, <<"smartphone", "case", "charger">>,
                     <<"laptop", "charger", "headphones">>, <<"tablet", "case", "stylus">>,
                     <<"smartphone", "headphones", "charger">>, <<"laptop", "keyboard", "mouse">>,
                     <<"tablet", "keyboard", "stylus">>, <<"smartphone", "case", "headphones">> >>],
     office |->
        [name |-> "Office Supplies",
         data |-> << <<"paper", "pens", "stapler">>, <<"notebook", "pens", "highlighter">>,
                     <<"paper", "stapler", "clips">>, <<"pens", "highlighter", "ruler">>,
                     <<"notebook", "paper", "pens">>, <<"stapler", "clips", "tape">>,
                     <<"pens", "ruler", "highlighter">>, <<"paper", "clips", "tape">> >>]]

\* the body of get_sample_dataset for a known id: the value STATE is updated to
sample_analysis(dataset) ==
    LET items == [columns |-> <<"items">>,
                  data |-> [i \in 1..Len(dataset.data) |-> <<Str(Join(dataset.data[i]))>>]]
        encoded == detect_and_encode(items).df
        min_support == Rat(1, 10)
        min_confidence == Rat(3, 10)
        frequent_itemsets == apriori(encoded, min_support)
        found == association_rules(frequent_itemsets, min_confidence)
        rules == WithSupporting(encoded, found.rules)
    IN  [ok |-> found.ok,
         state |->
           [df_raw |-> Some([columns |-> <<"0", "1", "2">>,
                             data |-> [i \in 1..Len(dataset.data) |->
                                         [j \in 1..Len(dataset.data[i]) |-> Str(dataset.data[i][j])]]]),
            df_encoded |-> Some(encoded),
            frequent_itemsets |-> Some(clean_itemsets(frequent_itemsets)),
            rules |-> Some(clean_rules(rules)),
            cooccurrence |-> Some(build_cooccurrence(encoded)),
            meta |-> Some([file_name |-> dataset.name \o " (Sample)",
                           n_transactions |-> Len(encoded.values),
                           n_items |-> Len(encoded.columns),
                           min_support |-> min_support,
                           min_confidence |-> min_confidence,
                           n_frequent_itemsets |-> Len(frequent_itemsets),
                           n_rules |-> Len(rules),
                           support_suggestions |-> None])]]

\* the three analyses, computed once
SampleAnalyses ==
    [groceries   |-> sample_analysis(SAMPLE_DATASETS.groceries),
     electronics |-> sample_analysis(SAMPLE_DATASETS.electronics),
     office      |-> sample_analysis(SAMPLE_DATASETS.office)]

\* get_sample_dataset leaving the rules of the previous analysis in STATE
get_sample_dataset_keeps_rules(st, dataset_id) ==
    [resp  |-> JSONResponse("Sample dataset loaded successfully",
                            SampleAnalyses[dataset_id].state.meta[1]),
     state |-> [SampleAnalyses[dataset_id].state EXCEPT !.rules = st.rules]]

\* GET /sample-dataset/{dataset_id}
get_sample_dataset(st, dataset_id) ==
    IF dataset_id \notin DOMAIN SAMPLE_DATASETS
    THEN [resp |-> HTTPException(404, "Dataset not found"), state |-> st]
    ELSE IF ~SampleAnalyses[dataset_id].ok
    THEN [resp |-> HTTPException(500, "Internal Server Error"), state |-> st]
    ELSE [resp  |-> JSONResponse("Sample dataset loaded successfully",
                                 SampleAnalyses[dataset_id].state.meta[1]),
          state |-> SampleAnalyses[dataset_id].state]

(***************************************************************************)
(* The requests of the model.                                              *)
(***************************************************************************)
\* the text of a cell, one per non-empty basket over three items
Baskets ==
    {"bread", "butter", "milk", "bread,butter", "bread,milk", "milk,butter",
     "bread,milk,butter"}

\* single-column tables of 1..MaxRows baskets
BasketTables ==
    UNION {{[columns |-> <<"basket">>, data |-> [i \in 1..n |-> <<Str(cells[i])>>]] :
              cells \in [1..n -> Baskets]} : n \in 1..MaxRows}

\* the four-basket scenario, and tables of the other shapes: transaction id +
\* item, a named items column, an already encoded table
OtherTables ==
    {[columns |-> <<"basket">>,
      data |-> << <<Str("bread,milk")>>, <<Str("bread,butter")>>, <<Str("milk,butter")>>,
                  <<Str("bread,milk,butter")>> >>],
     [columns |-> <<"tid", "Item">>,
      data |-> << <<Num(2), Str("bread")>>, <<Num(1), Str("milk")>>,
                  <<Num(2), Str("milk")>>, <<Num(1), Str("butter")>> >>],
     [columns |-> <<"Unnamed: 0", "id", "Items", "qty">>,
      data |-> << <<Num(0), Num(7), Str("bread, milk"), Num(2)>>,
                  <<Num(1), Num(8), Str(" milk ,,butter"), Num(1)>> >>],
     [columns |-> <<"bread", "milk", "butter">>,
      data |-> << <<Num(1), Str("Yes"), Num(0)>>, <<Num(1), Str("no"), Num(2)>>,
                  <<Num(0), Str(" x "), NaN>> >>],
     [columns |-> <<"milk", "bread">>,
      data |-> << <<Num(1), Num(1)>>, <<Num(1), Num(0)>>, <<Num(0), Num(1)>> >>]}

Tables == BasketTables \cup OtherTables

SupportValues == {Rat(1, 2), Rat(3, 4)}
ConfidenceValues == {Rat(3, 5), Rat(9, 10)}
FileNames == {"data.csv", "sample_transactions.csv"}
DatasetIds == DOMAIN SAMPLE_DATASETS

Requests ==
    [file : [filename : FileNames, table : Tables],
     min_support : SupportValues,
     min_confidence : ConfidenceValues]

Init ==
    /\ State = InitialSTATE
    /\ request \in Requests
    /\ response = None
    /\ encoding = None
    /\ suspended = {}

\* the client's POST /upload is handled
Upload ==
    \E out \in {upload_dataset(State, request.file, request.min_support, request.min_confidence)} :
        /\ State' = out.state
        /\ response' = Some(out.resp)
        /\ UNCHANGED <<request, encoding, suspended>>

\* a GET /sample-dataset/{dataset_id} is handled
GetSampleDataset ==
    \E dataset_id \in DatasetIds :
        \E out \in {get_sample_dataset(State, dataset_id)} :
            /\ State' = out.state
            /\ response' = Some(out.resp)
            /\ UNCHANGED <<request, encoding, suspended>>

Next == Upload \/ GetSampleDataset

Spec == Init /\ [][Next]_vars

TypeOK == response = None \/ response[1].status \in {200, 400, 404, 500}

(***************************************************************************)
(* detect_and_encode on its own: the tables it is given and the step that  *)
(* calls it.  The tables have the shapes of the four cases of lines        *)
(* 125-171, with blank, padded, repeated and missing cells, negative       *)
(* numbers, no rows at all, and an index column named "Unnamed: 0".        *)
(***************************************************************************)
MaxEncRows == 2

CommaCells == {Str("a,b"), Str("a,c"), Str("b,c"), Str(" a ,,a"), Str(" , "), NaN}

\* one column: case 2
SingleColumnTables ==
    UNION {{[columns |-> <<"basket">>, data |-> [i \in 1..n |-> <<cells[i]>>]] :
              cells \in [1..n -> CommaCells]} : n \in 0..MaxRows}

\* a column named Items and a numeric column: case 3
ItemRows == {<<c, q>> : c \in {Str("a,b"), Str(" , "), NaN}, q \in {Num(-1), Num(0), Num(2)}}

ItemColumnTables ==
    UNION {{[columns |-> <<"Items", "qty">>, data |-> [i \in 1..n |-> rows[i]]] :
              rows \in [1..n -> ItemRows]} : n \in 0..MaxEncRows}

\* a numeric column and a column of text or missing values: case 4
EncodedRows ==
    {<<x, y>> : x \in {Num(-1), Num(0), Num(2), NaN},
                y \in {Str("Yes"), Str(" x "), Str("no"), NaN}}

EncodedTables ==
    UNION {{[columns |-> <<"a", "b">>, data |-> [i \in 1..n |-> rows[i]]] :
              rows \in [1..n -> EncodedRows]} : n \in 0..MaxEncRows}

\* an index column to drop, a table both case 1 and case 3 apply to, and
\* single columns of numbers
MixedTables ==
    {[columns |-> <<"Unnamed: 0", "basket">>,
      data |-> << <<Num(0), Str("b, a")>>, <<Num(1), Str("a")>> >>],
     [columns |-> <<"Items", "product">>,
      data |-> << <<Str("a,b"), Str("c")>>, <<Str("b"), Str("c")>>, <<Str("a,b"), Str("a")>> >>],
     [columns |-> <<"code">>, data |-> << <<Num(7)>>, <<Num(12)>>, <<Num(7)>> >>],
     [columns |-> <<"code">>, data |-> << <<Num(7)>>, <<NaN>> >>]}

EncodeTables ==
    SingleColumnTables \cup ItemColumnTables \cup EncodedTables \cup MixedTables \cup OtherTables

InitEncode ==
    /\ State = InitialSTATE
    /\ request \in [file : [filename : {"data.csv"}, table : EncodeTables],
                    min_support : {Rat(1, 2)},
                    min_confidence : {Rat(3, 5)}]
    /\ response = None
    /\ encoding = None
    /\ suspended = {}

\* detect_and_encode is called on the client's table
Encode ==
    /\ encoding' = Some(detect_and_encode(request.file.table))
    /\ UNCHANGED <<State, request, response, suspended>>

NextEncode == Encode

SpecEncode == InitEncode /\ [][NextEncode]_vars

(***************************************************************************)
(* Vocabulary of the properties.                                           *)
(***************************************************************************)
\* STATE holds the analysis of the client's upload
Stored == State.df_raw = Some(request.file.table)

\* support of the set S of items in matrix df: rows containing all of S
\* over all rows
TrueSupport(df, S) ==
    Rat(Cardinality({i \in 1..Len(df.values) :
                        \A j \in 1..Len(df.columns) :
                            df.columns[j] \in S => df.values[i][j] = 1}),
        Len(df.values))

Itemsets(df) == (SUBSET Range(df.columns)) \ {{}}

StoredItemsets(st) ==
    {Range(st.frequent_itemsets[1][i].itemsets) : i \in 1..Len(st.frequent_itemsets[1])}

\* the stored support of a stored itemset
StoredSupport(st, S) ==
    LET fi == st.frequent_itemsets[1]
    IN  fi[CHOOSE i \in 1..Len(fi) : Range(fi[i].itemsets) = S].support

\* the analysis of the client's table under another file name and thresholds
Reanalysed(filename, min_support, min_confidence) ==
    upload_dataset(InitialSTATE, [filename |-> filename, table |-> request.file.table],
                   min_support, min_confidence)

(***************************************************************************)
(* C1: every frequent itemset stored by an upload has support at least     *)
(* the minSupport the caller requested.                                    *)
(***************************************************************************)
C1_RequestedSupportRespected ==
    Stored =>
        \A i \in 1..Len(State.frequent_itemsets[1]) :
            RGeq(State.frequent_itemsets[1][i].support, request.min_support)

(***************************************************************************)
(* C2: every rule stored by an upload has confidence at least the          *)
(* minConfidence the caller requested.                                     *)
(***************************************************************************)
C2_RequestedConfidenceRespected ==
    Stored =>
        \A i \in 1..Len(State.rules[1]) :
            RGeq(State.rules[1][i].confidence, request.min_confidence)

(***************************************************************************)
(* C3: when no itemset of the encoded matrix reaches the requested         *)
(* minSupport, the upload produces no result (mining is not re-run with a  *)
(* looser threshold): a stored result implies that some itemset reaches    *)
(* the requested minSupport.                                               *)
(***************************************************************************)
C3_NoResultWhenNothingFrequent ==
    Stored =>
        \E S \in Itemsets(State.df_encoded[1]) :
            RGeq(TrueSupport(State.df_encoded[1], S), request.min_support)

(***************************************************************************)
(* C4: when an upload mined or filtered with a threshold other than the    *)
(* requested one, the requested values can be recovered from the stored    *)
(* metadata: no other pair of requested thresholds yields that metadata.   *)
(***************************************************************************)
Substituted ==
    \/ ~REq(State.meta[1].min_support, request.min_support)
    \/ ~REq(State.meta[1].min_confidence, request.min_confidence)

C4_SubstitutionVisibleInMeta ==
    (Stored /\ Substituted) =>
        \A s \in SupportValues : \A c \in ConfidenceValues :
            Reanalysed(request.file.filename, s, c).state.meta = State.meta
                => (s = request.min_support /\ c = request.min_confidence)

(***************************************************************************)
(* C5: the result of an upload does not depend on the file name: the same  *)
(* table and thresholds under any other file name give the same frequent   *)
(* itemsets, rules and effective thresholds.                               *)
(***************************************************************************)
C5_FileNameIrrelevant ==
    Stored =>
        \A fn \in FileNames :
            LET other == Reanalysed(fn, request.min_support, request.min_confidence).state
            IN  /\ other.frequent_itemsets = State.frequent_itemsets
                /\ other.rules = State.rules
                /\ other.meta # None
                /\ other.meta[1].min_support = State.meta[1].min_support
                /\ other.meta[1].min_confidence = State.meta[1].min_confidence

(***************************************************************************)
(* C6: mining returns exactly the non-empty itemsets whose support is at   *)
(* least the threshold it was run with, each once and with its support.    *)
(***************************************************************************)
MinedExactly(st) ==
    LET df == st.df_encoded[1]
        fi == st.frequent_itemsets[1]
    IN  /\ StoredItemsets(st) =
               {S \in Itemsets(df) : RGeq(TrueSupport(df, S), st.meta[1].min_support)}
        /\ \A i \in 1..Len(fi) : REq(fi[i].support, TrueSupport(df, Range(fi[i].itemsets)))
        /\ \A i, j \in 1..Len(fi) : fi[i].itemsets = fi[j].itemsets => i = j

\* the three sample analyses, evaluated once
SamplesMinedExactly ==
    [groceries   |-> MinedExactly(SampleAnalyses.groceries.state),
     electronics |-> MinedExactly(SampleAnalyses.electronics.state),
     office      |-> MinedExactly(SampleAnalyses.office.state)]

C6_MiningExact ==
    /\ Stored => MinedExactly(State)
    /\ \A id \in DatasetIds : State = SampleAnalyses[id].state => SamplesMinedExactly[id]

\* the four-basket scenario at 0.5: three singletons, three pairs, no triple
C6_Witness ==
    /\ Stored
    /\ Len(State.df_encoded[1].values) = 4
    /\ State.meta[1].min_support = Rat(1, 2)
    /\ StoredItemsets(State) =
           {{"bread"}, {"milk"}, {"butter"},
            {"bread", "milk"}, {"bread", "butter"}, {"milk", "butter"}}
    /\ REq(TrueSupport(State.df_encoded[1], {"bread", "milk", "butter"}), Rat(1, 4))

(***************************************************************************)
(* C7: antimonotonicity: for stored itemsets A subset of B, the stored     *)
(* support of A is at least the stored support of B.                       *)
(***************************************************************************)
C7_Antimonotone ==
    Stored =>
        \A i, j \in 1..Len(State.frequent_itemsets[1]) :
            LET A == State.frequent_itemsets[1][i]
                B == State.frequent_itemsets[1][j]
            IN  Range(A.itemsets) \subseteq Range(B.itemsets) => RGeq(A.support, B.support)

\* a stored itemset with a stored proper superset of lower support
C7_Witness ==
    /\ Stored
    /\ \E i, j \in 1..Len(State.frequent_itemsets[1]) :
            LET A == State.frequent_itemsets[1][i]
                B == State.frequent_itemsets[1][j]
            IN  /\ Range(A.itemsets) \subseteq Range(B.itemsets)
                /\ Range(A.itemsets) # Range(B.itemsets)
                /\ RGt(A.support, B.support)

(***************************************************************************)
(* C8: every stored rule is valid: antecedent and consequent are non-empty *)
(* and disjoint, their union is a stored frequent itemset, the confidence  *)
(* lies in [0,1] and the lift is at least 0.                               *)
(***************************************************************************)
C8_RulesValid ==
    Stored =>
        \A i \in 1..Len(State.rules[1]) :
            LET r == State.rules[1][i]
                A == Range(r.antecedents)
                C == Range(r.consequents)
            IN  /\ A # {} /\ C # {}
                /\ A \cap C = {}
                /\ (A \cup C) \in StoredItemsets(State)
                /\ r.confidence[2] > 0 /\ r.lift[2] > 0
                /\ RGeq(r.confidence, Rat(0, 1)) /\ RGeq(Rat(1, 1), r.confidence)
                /\ RGeq(r.lift, Rat(0, 1))

\* an upload that stored a rule with a two-item antecedent or consequent
C8_Witness ==
    /\ Stored
    /\ \E i \in 1..Len(State.rules[1]) :
            Len(State.rules[1][i].antecedents) + Len(State.rules[1][i].consequents) = 3

(***************************************************************************)
(* C9: rule generation is complete for the requested minConfidence: the    *)
(* stored rules are exactly the pairs (A, I \ A), I a stored itemset of    *)
(* size >= 2 and A a non-empty proper subset of I, with                    *)
(* support(I)/support(A) >= the requested minConfidence, each once; and    *)
(* no rules are stored when no candidate passes.                           *)
(***************************************************************************)
RulePairs(st) ==
    {<<Range(st.rules[1][i].antecedents), Range(st.rules[1][i].consequents)>> :
        i \in 1..Len(st.rules[1])}

PassingPairs(st, min_confidence) ==
    UNION {{<<A, I \ A>> :
               A \in {B \in (SUBSET I) \ {{}, I} :
                        RGeq(RDiv(StoredSupport(st, I), StoredSupport(st, B)), min_confidence)}} :
           I \in StoredItemsets(st)}

C9_RulesCompleteForRequest ==
    Stored =>
        /\ RulePairs(State) = PassingPairs(State, request.min_confidence)
        /\ Len(State.rules[1]) = Cardinality(RulePairs(State))

(***************************************************************************)
(* C10: every stored rule A -> C carries support = support(A u C),         *)
(* confidence = support(A u C) / support(A) and lift = confidence /        *)
(* support(C), the supports being row counts over the number of rows of    *)
(* the encoded matrix.                                                     *)
(***************************************************************************)
C10_RuleMetrics ==
    Stored =>
        \A i \in 1..Len(State.rules[1]) :
            LET r == State.rules[1][i]
                df == State.df_encoded[1]
                sAC == TrueSupport(df, Range(r.antecedents) \cup Range(r.consequents))
                sA == TrueSupport(df, Range(r.antecedents))
                sC == TrueSupport(df, Range(r.consequents))
            IN  /\ sA[1] > 0 /\ sC[1] > 0
                /\ r.confidence[2] > 0 /\ r.lift[2] > 0
                /\ REq(r.support, sAC)
                /\ REq(r.confidence, RDiv(sAC, sA))
                /\ REq(r.lift, RDiv(RDiv(sAC, sA), sC))

\* the four-basket scenario: {bread} -> {milk} with confidence 0.5/0.75 and
\* lift (0.5/0.75)/0.75
C10_Witness ==
    /\ Stored
    /\ Len(State.df_encoded[1].values) = 4
    /\ \E i \in 1..Len(State.rules[1]) :
            LET r == State.rules[1][i]
            IN  /\ r.antecedents = <<"bread">> /\ r.consequents = <<"milk">>
                /\ REq(r.support, Rat(1, 2))
                /\ REq(r.antecedent_support, Rat(3, 4))
                /\ REq(r.confidence, Rat(2, 3))
                /\ REq(r.lift, Rat(8, 9))

(***************************************************************************)
(* C11: the supporting_transactions of every stored rule are exactly the   *)
(* row indices (from 0, ascending) of the rows of the encoded matrix that  *)
(* contain every item of antecedent and consequent, so their number over   *)
(* the number of rows is the support of the rule.                          *)
(***************************************************************************)
\* the rows (from 1) of df that hold every item of S
RowsContaining(df, S) ==
    {i \in 1..Len(df.values) :
        \A j \in 1..Len(df.columns) : df.columns[j] \in S => df.values[i][j] = 1}

SupportingExact(st) ==
    \A i \in 1..Len(st.rules[1]) :
        LET r == st.rules[1][i]
            t == r.supporting_transactions
            df == st.df_encoded[1]
        IN  /\ Range(t) = {row - 1 :
                   row \in RowsContaining(df, Range(r.antecedents) \cup Range(r.consequents))}
            /\ \A k \in 1..(Len(t) - 1) : t[k] < t[k + 1]
            /\ REq(Rat(Len(t), Len(df.values)), r.support)

\* the three sample analyses, evaluated once
SamplesSupportingExact ==
    [groceries   |-> SupportingExact(SampleAnalyses.groceries.state),
     electronics |-> SupportingExact(SampleAnalyses.electronics.state),
     office      |-> SupportingExact(SampleAnalyses.office.state)]

C11_SupportingTransactions ==
    /\ Stored => SupportingExact(State)
    /\ \A id \in DatasetIds : State = SampleAnalyses[id].state => SamplesSupportingExact[id]

\* a stored rule supported by some rows and not by others
C11_Witness ==
    /\ Stored
    /\ \E i \in 1..Len(State.rules[1]) :
          /\ Len(State.rules[1][i].supporting_transactions) >= 2
          /\ Len(State.rules[1][i].supporting_transactions) < Len(State.df_encoded[1].values)
          /\ State.rules[1][i].supporting_transactions[1] > 0

(***************************************************************************)
(* C12: the stored co-occurrence matrix is indexed by the vocabulary, its  *)
(* cell (a,b), a # b, is the number of rows containing both items, it is   *)
(* symmetric and its diagonal is zero (all zero for a single item).        *)
(***************************************************************************)
C12_Cooccurrence ==
    Stored =>
        LET df == State.df_encoded[1]
            co == State.cooccurrence[1]
            m == Len(df.columns)
        IN  /\ co.columns = df.columns
            /\ Len(co.values) = m
            /\ \A a \in 1..m :
                  /\ Len(co.values[a]) = m
                  /\ co.values[a][a] = 0
                  /\ \A b \in (1..m) \ {a} :
                        /\ co.values[a][b] = Cardinality(
                               RowsContaining(df, {df.columns[a], df.columns[b]}))
                        /\ co.values[a][b] = co.values[b][a]

\* a stored matrix of several items with a positive cell
C12_Witness ==
    /\ Stored
    /\ Len(State.cooccurrence[1].columns) = 3
    /\ State.cooccurrence[1].values[1][2] = 2
    /\ State.cooccurrence[1].values[1][3] = 1

(***************************************************************************)
(* C18: the stored support suggestions are exactly max(0.01, min/2),       *)
(* max(0.02, min), max(0.05, 0.3 median), max(0.10, 0.5 median) and        *)
(* max(0.20, median) of the item frequencies of the encoded matrix, so     *)
(* each is at least its floor and at most 1.                               *)
(***************************************************************************)
\* x is the larger of a and b
IsMax(x, a, b) == (REq(x, a) \/ REq(x, b)) /\ RGeq(x, a) /\ RGeq(x, b)

\* the number of rows holding the item of column j
ItemCount(df, j) == Cardinality({i \in 1..Len(df.values) : df.values[i][j] = 1})

\* the k-th smallest item count of df
KthCount(df, k) ==
    LET cols == 1..Len(df.columns)
    IN  CHOOSE v \in {ItemCount(df, j) : j \in cols} :
            /\ Cardinality({j \in cols : ItemCount(df, j) < v}) < k
            /\ Cardinality({j \in cols : ItemCount(df, j) <= v}) >= k

C18_SupportSuggestions ==
    Stored =>
        LET df == State.df_encoded[1]
            n == Len(df.values)
            m == Len(df.columns)
            s == State.meta[1].support_suggestions[1]
            min_freq == Rat(KthCount(df, 1), n)
            median_freq == Rat(KthCount(df, (m + 1) \div 2) + KthCount(df, m \div 2 + 1), 2 * n)
        IN  /\ DOMAIN s = {"very_low", "low", "conservative", "moderate", "strict"}
            /\ IsMax(s.very_low, Rat(1, 100), RMul(min_freq, Rat(1, 2)))
            /\ IsMax(s.low, Rat(2, 100), min_freq)
            /\ IsMax(s.conservative, Rat(5, 100), RMul(median_freq, Rat(3, 10)))
            /\ IsMax(s.moderate, Rat(10, 100), RMul(median_freq, Rat(1, 2)))
            /\ IsMax(s.strict, Rat(20, 100), median_freq)
            /\ \A k \in DOMAIN s : RGeq(Rat(1, 1), s[k])

\* a stored matrix of three items of three different frequencies, whose
\* suggestions are 1/6, 1/3, 1/5, 1/3 and 2/3
C18_Witness ==
    /\ Stored
    /\ request.min_support = Rat(1, 2)
    /\ request.min_confidence = Rat(3, 5)
    /\ request.file.filename = "data.csv"
    /\ State.df_encoded[1].values = << <<1, 1, 1>>, <<1, 1, 0>>, <<1, 0, 0>> >>
    /\ REq(State.meta[1].support_suggestions[1].very_low, Rat(1, 6))
    /\ REq(State.meta[1].support_suggestions[1].strict, Rat(2, 3))

(***************************************************************************)
(* GET /frequent-itemsets (the handler registered first, lines 323-345):   *)
(* the stored itemsets, sorted by support descending with sorted(), which  *)
(* keeps rows of equal support in their stored order.                      *)
(***************************************************************************)
get_frequent_itemsets(st) ==
    IF st.frequent_itemsets = None THEN <<>>
    ELSE LET itemsets_df == st.frequent_itemsets[1]
             itemsets_list == [i \in 1..Len(itemsets_df) |->
                                 [itemset |-> itemsets_df[i].itemsets,
                                  support |-> itemsets_df[i].support]]
         IN  SortBySupportDesc(itemsets_list)

(***************************************************************************)
(* C20: the frequent itemsets of an analysis are ordered by support        *)
(* descending, itemsets of equal support by size ascending and then by     *)
(* lexicographic order of their items.                                     *)
(***************************************************************************)
\* lexicographic order of two item lists of the same length
RECURSIVE ItemsLess(_, _)
ItemsLess(a, b) ==
    /\ a # <<>>
    /\ \/ StrLess(Head(a), Head(b))
       \/ Head(a) = Head(b) /\ ItemsLess(Tail(a), Tail(b))

ComesBefore(x, y) ==
    \/ RGt(x.support, y.support)
    \/ /\ REq(x.support, y.support)
       /\ \/ Len(x.itemset) < Len(y.itemset)
          \/ Len(x.itemset) = Len(y.itemset) /\ ItemsLess(x.itemset, y.itemset)

CanonicalOrder(list) == \A k \in 1..(Len(list) - 1) : ComesBefore(list[k], list[k + 1])

\* the three sample analyses, evaluated once
SamplesCanonicalOrder ==
    [id \in DatasetIds |->
        /\ CanonicalOrder(get_frequent_itemsets(SampleAnalyses[id].state))
        /\ SampleAnalyses[id].state.frequent_itemsets # None]

C20_CanonicalOrder ==
    /\ Stored => CanonicalOrder(get_frequent_itemsets(State))
    /\ \A id \in DatasetIds : State = SampleAnalyses[id].state => SamplesCanonicalOrder[id]

(***************************************************************************)
(* POST /upload with thresholds inside and outside (0, 1], on tables that  *)
(* can be analysed, a table without rows and a table without any item.     *)
(***************************************************************************)
ThresholdValues == {Rat(0 - 1, 2), Rat(0, 1), Rat(1, 2), Rat(1, 1), Rat(3, 2)}

ValidateTables ==
    OtherTables \cup
    {[columns |-> <<"basket">>, data |-> <<>>],
     [columns |-> <<"a", "b">>, data |-> << <<Num(0), NaN>> >>]}

InitValidate ==
    /\ State = InitialSTATE
    /\ request \in [file : [filename : {"data.csv"}, table : ValidateTables],
                    min_support : ThresholdValues,
                    min_confidence : ThresholdValues]
    /\ response = None
    /\ encoding = None
    /\ suspended = {}

NextValidate == Upload \/ GetSampleDataset

SpecValidate == InitValidate /\ [][NextValidate]_vars

(***************************************************************************)
(* Vocabulary of the properties of detect_and_encode.                      *)
(***************************************************************************)
\* detect_and_encode has been called on the client's table
Encoded == encoding # None

\* the table the detection looks at
Detected == DropUnnamed(request.file.table)

NamesItem(name) == Contains(Lower(name), "item")

\* the first of the four rules whose condition the table meets
MatchedRule(df) ==
    IF NCols(df) = 2 /\ (NamesItem(df.columns[2]) \/ Contains(Lower(df.columns[2]), "product"))
    THEN 1
    ELSE IF NCols(df) = 1 THEN 2
    ELSE IF \E j \in 1..NCols(df) : NamesItem(df.columns[j]) THEN 3
    ELSE 4

\* the column a comma-split rule reads
SplitColumn(df) == CHOOSE j \in 1..NCols(df) :
                      /\ MatchedRule(df) = 3 => NamesItem(df.columns[j])
                      /\ \A l \in 1..(j - 1) : MatchedRule(df) = 3 /\ ~NamesItem(df.columns[l])

\* what rule r alone makes of the table
RuleOutcome(df, r) ==
    IF r = 1 THEN transactional_to_onehot(GroupTransactions(df))
    ELSE IF r \in {2, 3} THEN transactional_to_onehot(CommaTransactions(df, SplitColumn(df)))
    ELSE AlreadyEncoded(df)

(***************************************************************************)
(* C13: the encoding of a table with rows is the one of the first rule     *)
(* whose condition it meets (two columns with an item/product column, one  *)
(* column, a column named item, otherwise already encoded); no rule of     *)
(* lower priority is applied once a rule matched.                          *)
(***************************************************************************)
C13_FirstMatchWins ==
    (Encoded /\ ~IsEmpty(request.file.table)) =>
        LET outcome == RuleOutcome(Detected, MatchedRule(Detected))
        IN  /\ encoding[1].ok = outcome.ok
            /\ encoding[1].df = outcome.df

(***************************************************************************)
(* C15: a table read by a comma-split rule (one column, or a column named  *)
(* item) whose every row gives no item is refused as having no valid       *)
(* transactions; no matrix is returned for it.                             *)
(***************************************************************************)
\* a cell with no item: missing, or only blanks and commas
Blank(x) ==
    \/ x.k = "nan"
    \/ x.k = "str" /\ \A p \in 1..Len(x.s) : SubSeq(x.s, p, p) \in {" ", ","}

NoItemsAnywhere(df) == \A i \in 1..NRows(df) : Blank(df.data[i][SplitColumn(df)])

C15_NoValidTransactions ==
    (/\ Encoded
     /\ ~IsEmpty(request.file.table)
     /\ MatchedRule(Detected) \in {2, 3}
     /\ NoItemsAnywhere(Detected))
        => /\ ~encoding[1].ok
           /\ encoding[1].err \in {"No valid transactions found",
                                   "No valid transactions found in the data"}

(***************************************************************************)
(* C16: for a table no other rule matches, every cell becomes 0 or 1: a    *)
(* number 1 exactly when it is not zero (negative numbers too), a text 1   *)
(* exactly when trimmed and lower-cased it is 1, true, yes, y, t or x, a   *)
(* missing cell 0; the encoding fails when no cell is 1.                   *)
(***************************************************************************)
Coerced(x) ==
    IF x.k = "num" THEN (IF x.n # 0 THEN 1 ELSE 0)
    ELSE IF x.k = "str" /\ Lower(Strip(x.s)) \in {"1", "true", "yes", "y", "t", "x"} THEN 1
    ELSE 0

C16_Coercion ==
    (Encoded /\ ~IsEmpty(request.file.table) /\ MatchedRule(Detected) = 4) =>
        LET df == Detected
            cells == (1..NRows(df)) \X (1..NCols(df))
        IN  /\ encoding[1].ok <=> \E c \in cells : Coerced(df.data[c[1]][c[2]]) = 1
            /\ encoding[1].ok =>
                  /\ encoding[1].df.columns = df.columns
                  /\ Len(encoding[1].df.values) = NRows(df)
                  /\ \A c \in cells :
                        encoding[1].df.values[c[1]][c[2]] = Coerced(df.data[c[1]][c[2]])

(***************************************************************************)
(* C17: detect_and_encode on a table without rows fails as an empty        *)
(* dataset, whatever its columns are, and returns no matrix.               *)
(***************************************************************************)
C17_EmptyTable ==
    (Encoded /\ NRows(request.file.table) = 0) =>
        /\ ~encoding[1].ok
        /\ encoding[1].err = "Empty dataframe provided"
        /\ encoding[1].df = EmptyDF

\* a table without rows that rule 3 would otherwise read has been refused
C17_Witness ==
    /\ Encoded
    /\ NRows(request.file.table) = 0
    /\ request.file.table.columns = <<"Items", "qty">>
    /\ ~encoding[1].ok

(***************************************************************************)
(* C14: for a table of one column the matrix has one row per input row     *)
(* with at least one non-blank item, in input order, and no all-zero row;  *)
(* its columns are the distinct trimmed items in sorted order; a cell is 1 *)
(* exactly when the item occurs in the cell of that row.  With no such row *)
(* there is no matrix.                                                     *)
(***************************************************************************)
CharAt(text, p) == SubSeq(text, p, p)

\* text[i..j] is an item of the comma-separated text: it is not empty, has
\* no comma, neither starts nor ends with a blank, and only blanks lie
\* between it and the neighbouring commas or ends of the text
ItemAt(text, i, j) ==
    /\ i <= j
    /\ \A p \in i..j : CharAt(text, p) # ","
    /\ CharAt(text, i) # " " /\ CharAt(text, j) # " "
    /\ \E c \in 0..(i - 1) :
          /\ c = 0 \/ CharAt(text, c) = ","
          /\ \A p \in (c + 1)..(i - 1) : CharAt(text, p) = " "
    /\ \E c \in (j + 1)..(Len(text) + 1) :
          /\ c = Len(text) + 1 \/ CharAt(text, c) = ","
          /\ \A p \in (j + 1)..(c - 1) : CharAt(text, p) = " "

ItemsIn(text) ==
    {SubSeq(text, p[1], p[2]) :
        p \in {q \in (1..Len(text)) \X (1..Len(text)) : ItemAt(text, q[1], q[2])}}

\* the items of input row i of a one-column table
RowItems(df, i) == ItemsIn(CellText(df, i, 1))

\* the input row that becomes row r of the matrix
KeptRow(df, r) ==
    CHOOSE i \in 1..NRows(df) :
        /\ RowItems(df, i) # {}
        /\ Cardinality({l \in 1..i : RowItems(df, l) # {}}) = r

C14_SingleColumn ==
    (Encoded /\ ~IsEmpty(request.file.table) /\ NCols(Detected) = 1) =>
        LET df == Detected
            kept == {i \in 1..NRows(df) : RowItems(df, i) # {}}
            X == encoding[1].df
        IN  IF kept = {} THEN ~encoding[1].ok
            ELSE /\ encoding[1].ok
                 /\ Range(X.columns) = UNION {RowItems(df, i) : i \in kept}
                 /\ \A j \in 1..(Len(X.columns) - 1) : StrLess(X.columns[j], X.columns[j + 1])
                 /\ Len(X.values) = Cardinality(kept)
                 /\ \A r \in 1..Len(X.values) :
                       /\ Len(X.values[r]) = Len(X.columns)
                       /\ \E j \in 1..Len(X.columns) : X.values[r][j] = 1
                       /\ \A j \in 1..Len(X.columns) :
                             /\ X.values[r][j] \in {0, 1}
                             /\ X.values[r][j] = 1 <=> X.columns[j] \in RowItems(df, KeptRow(df, r))

\* the scenario "a,b", "a,c", "b,c": three rows over a, b, c, each item in
\* two rows
C14_Witness ==
    /\ Encoded
    /\ request.file.table = [columns |-> <<"basket">>,
                             data |-> << <<Str("a,b")>>, <<Str("a,c")>>, <<Str("b,c")>> >>]
    /\ encoding[1].df = [columns |-> <<"a", "b", "c">>,
                         values |-> << <<1, 1, 0>>, <<1, 0, 1>>, <<0, 1, 1>> >>]

(***************************************************************************)
(* C19: an upload whose min_support or min_confidence is not in (0, 1] is  *)
(* answered with the validation error 400 whatever the table is (empty,    *)
(* not encodable or fine), and leaves STATE as it was.                     *)
(***************************************************************************)
OutsideUnitInterval(x) == x[1] * x[2] <= 0 \/ x[1] * x[2] > x[2] * x[2]

InvalidRequest ==
    OutsideUnitInterval(request.min_support) \/ OutsideUnitInterval(request.min_confidence)

ValidationErrors ==
    {"min_support must be between 0 and 1", "min_confidence must be between 0 and 1"}

C19_InvalidRejected ==
    [][(Upload /\ InvalidRequest) =>
          /\ State' = State
          /\ response'[1].status = 400
          /\ response'[1].detail \in ValidationErrors]_vars

\* an invalid upload has been refused while STATE holds a sample analysis
C19_Witness ==
    /\ InvalidRequest
    /\ response # None
    /\ response[1].status = 400
    /\ response[1].detail \in ValidationErrors
    /\ State = SampleAnalyses.groceries.state
    /\ request.file.table.columns = <<"tid", "Item">>

(***************************************************************************)
(* The handlers that only read STATE.  None of them awaits, so each is one *)
(* step.  A response is the route, the status and the JSON content.        *)
(***************************************************************************)
Content(route, status_code, content) ==
    [status |-> status_code, route |-> route, content |-> content]

\* int(x) of a float that is not negative
IntOf(x) == x[1] \div x[2]

IsMissingOrEmpty(field) == field = None \/ field[1] = <<>>

\* lines 286-303
sample_rules ==
    << [antecedent |-> <<"Bread", "Butter">>, consequent |-> <<"Milk">>,
        support |-> Rat(2, 10), confidence |-> Rat(8, 10), lift |-> Rat(15, 10),
        n_transactions |-> 10],
       [antecedent |-> <<"Beer">>, consequent |-> <<"Chips">>,
        support |-> Rat(15, 100), confidence |-> Rat(7, 10), lift |-> Rat(13, 10),
        n_transactions |-> 8] >>

\* GET /rules
get_rules(st) ==
    IF IsMissingOrEmpty(st.rules)
    THEN Content("/rules", 200, [rules |-> sample_rules])
    ELSE LET rules_df == st.rules[1]
             rules_list == [i \in 1..Len(rules_df) |->
                 [antecedent |-> rules_df[i].antecedents,
                  consequent |-> rules_df[i].consequents,
                  support |-> rules_df[i].support,
                  confidence |-> rules_df[i].confidence,
                  lift |-> rules_df[i].lift,
                  n_transactions |->
                      IntOf(RMul(rules_df[i].support, Rat(st.meta[1].n_transactions, 1)))]]
         IN  Content("/rules", 200, [rules |-> rules_list])

\* GET /association-rules (the second handler named get_rules, line 645)
get_association_rules(st) ==
    IF IsMissingOrEmpty(st.rules) THEN Content("/association-rules", 200, <<>>)
    ELSE Content("/association-rules", 200, st.rules[1])

\* lines 354-365: the demonstration matrix, whose cells off the diagonal are
\* drawn at random; draw stands for the outcome of the random numbers
sample_items == <<"Bread", "Milk", "Eggs", "Butter", "Beer", "Chips", "Soda", "Cheese">>

HeatDraws == 0..2

HeatValues == <<Rat(10, 100), Rat(45, 100), Rat(90, 100)>>

sample_matrix(draw) ==
    [i \in 1..Len(sample_items) |-> [j \in 1..Len(sample_items) |->
        IF i = j THEN Rat(1, 1) ELSE HeatValues[((i * j + draw) % 3) + 1]]]

\* GET /heatmap
get_heatmap(st, draw) ==
    IF st.cooccurrence = None
    THEN Content("/heatmap", 200, [items |-> sample_items, matrix |-> sample_matrix(draw)])
    ELSE LET co == st.cooccurrence[1]
         IN  Content("/heatmap", 200, [items |-> co.columns, matrix |-> co.values])

\* GET /cooccurrence
get_cooccurrence(st) ==
    IF st.cooccurrence = None \/ st.cooccurrence[1].columns = <<>>
    THEN Content("/cooccurrence", 200,
                 [labels |-> <<>>, matrix |-> <<>>,
                  message |-> "No co-occurrence data available"])
    ELSE LET co == st.cooccurrence[1]
         IN  Content("/cooccurrence", 200, [labels |-> co.columns, matrix |-> co.values])

\* GET /meta
get_meta(st) ==
    IF st.meta = None
    THEN Content("/meta", 404, [message |-> "No analysis performed yet"])
    ELSE Content("/meta", 200, st.meta[1])

\* GET /support-suggestions
get_support_suggestions(st) ==
    IF st.df_encoded = None
    THEN Content("/support-suggestions", 404,
                 [message |-> "No dataset loaded. Upload a dataset first."])
    ELSE Content("/support-suggestions", 200,
                 [suggestions |-> calculate_optimal_support(st.df_encoded[1])])

(***************************************************************************)
(* GET /insights.  An insight is kept as its kind and the values its text  *)
(* is formatted from, not as the formatted sentence.                       *)
(***************************************************************************)
MetaInsights(st) ==
    IF st.meta = None THEN <<>>
    ELSE LET meta == st.meta[1]
             support_used == meta.min_support
             s == meta.support_suggestions
         IN  (IF meta.n_transactions > 0 /\ meta.n_items > 0
              THEN << [kind |-> "data", n_tx |-> meta.n_transactions, n_items |-> meta.n_items] >>
              ELSE <<>>)
             \o
             (IF s = None THEN <<>>
              ELSE IF RGt(support_used, s[1].conservative)
              THEN << [kind |-> "frequent only", support |-> support_used, low |-> s[1].low] >>
              ELSE IF RGt(s[1].very_low, support_used)
              THEN << [kind |-> "very loose", support |-> support_used] >>
              ELSE <<>>)

ItemsetInsights(fi) ==
    LET singles == SelectSeq(fi, LAMBDA row : Len(row.itemsets) = 1)
        multis == SelectSeq(fi, LAMBDA row : Len(row.itemsets) > 1)
        pair_count == Len(SelectSeq(multis, LAMBDA row : Len(row.itemsets) = 2))
        triple_count == Len(SelectSeq(multis, LAMBDA row : Len(row.itemsets) = 3))
    IN  (IF singles # <<>>
         THEN << [kind |-> "bestseller", item |-> singles[1].itemsets[1],
                  support |-> singles[1].support] >>
         ELSE <<>>)
        \o
        (IF multis # <<>>
         THEN << [kind |-> "bought together", combo |-> SortedStrings(Range(multis[1].itemsets)),
                  support |-> multis[1].support] >>
         ELSE <<>>)
        \o
        (IF triple_count > 0
         THEN << [kind |-> "pairs and triples", pairs |-> pair_count, triples |-> triple_count] >>
         ELSE IF pair_count > 0 THEN << [kind |-> "pairs", pairs |-> pair_count] >>
         ELSE <<>>)

RuleInsights(rules) ==
    LET n == Len(rules)
        \* rules.nlargest(1, "confidence").iloc[0]: the first row of the largest confidence
        best == CHOOSE i \in 1..n :
                   /\ \A j \in 1..n : RGeq(rules[i].confidence, rules[j].confidence)
                   /\ \A j \in 1..(i - 1) : RGt(rules[i].confidence, rules[j].confidence)
        high_lift_count == Cardinality({i \in 1..n : RGt(rules[i].lift, Rat(15, 10))})
        very_high_lift == Cardinality({i \in 1..n : RGt(rules[i].lift, Rat(2, 1))})
        low_lift_count == Cardinality({i \in 1..n : RGt(Rat(11, 10), rules[i].lift)})
    IN  << [kind |-> "strongest",
            antecedents |-> SortedStrings(Range(rules[best].antecedents)),
            consequents |-> SortedStrings(Range(rules[best].consequents)),
            confidence |-> rules[best].confidence] >>
        \o (IF high_lift_count > 0
            THEN << [kind |-> "strong connections", count |-> high_lift_count] >> ELSE <<>>)
        \o (IF very_high_lift > 0
            THEN << [kind |-> "twice as likely", count |-> very_high_lift] >> ELSE <<>>)
        \o (IF low_lift_count > 0 /\ 2 * low_lift_count > n
            THEN << [kind |-> "weak", count |-> low_lift_count] >> ELSE <<>>)
        \o (IF n >= 5 THEN << [kind |-> "promotions", count |-> n] >> ELSE <<>>)

get_insights(st) ==
    LET fi == IF IsMissingOrEmpty(st.frequent_itemsets) THEN <<>> ELSE st.frequent_itemsets[1]
        rules == IF IsMissingOrEmpty(st.rules) THEN <<>> ELSE st.rules[1]
        insights ==
            MetaInsights(st)
            \o (IF fi # <<>> THEN ItemsetInsights(fi) ELSE <<>>)
            \o (IF rules # <<>> THEN RuleInsights(rules)
                ELSE IF fi # <<>>
                THEN << [kind |-> "no rules",
                         confidence |-> IF st.meta = None THEN Rat(0, 1)
                                        ELSE st.meta[1].min_confidence] >>
                ELSE IF st.meta # None /\ st.meta[1].n_frequent_itemsets > 0
                THEN << [kind |-> "no patterns"] >>
                ELSE <<>>)
    IN  Content("/insights", 200,
                [insights |-> IF insights = <<>> THEN << [kind |-> "upload your data"] >>
                              ELSE insights])

(***************************************************************************)
(* The server under concurrent requests.  The handlers are coroutines on   *)
(* one event loop: a handler runs alone from one await to the next.  The   *)
(* only await of the handlers that touch STATE is `await file.read()` of   *)
(* upload_dataset (line 393), after the validation of the thresholds and   *)
(* before anything else; so an upload is two steps and every other         *)
(* handler is one.                                                         *)
(***************************************************************************)
\* uploads with rules, without rules, with a threshold out of range and
\* with a table that cannot be encoded
UploadRequests ==
    {[file |-> [filename |-> "data.csv",
                table |-> [columns |-> <<"basket">>,
                           data |-> << <<Str("bread,milk")>>, <<Str("bread,butter")>>,
                                       <<Str("milk,butter")>>, <<Str("bread,milk,butter")>> >>]],
      min_support |-> Rat(1, 2), min_confidence |-> Rat(3, 5)],
     [file |-> [filename |-> "data.csv",
                table |-> [columns |-> <<"milk", "bread">>,
                           data |-> << <<Num(1), Num(1)>>, <<Num(1), Num(0)>>, <<Num(0), Num(1)>> >>]],
      min_support |-> Rat(1, 2), min_confidence |-> Rat(3, 5)],
     [file |-> [filename |-> "data.csv",
                table |-> [columns |-> <<"basket">>,
                           data |-> << <<Str("bread,milk")>>, <<Str("bread")>> >>]],
      min_support |-> Rat(3, 2), min_confidence |-> Rat(3, 5)],
     [file |-> [filename |-> "data.csv",
                table |-> [columns |-> <<"a", "b">>, data |-> << <<Num(0), NaN>> >>]],
      min_support |-> Rat(1, 2), min_confidence |-> Rat(3, 5)]}

InitServe ==
    /\ State = InitialSTATE
    /\ request \in UploadRequests
    /\ response = None
    /\ encoding = None
    /\ suspended = {}

\* POST /upload up to `await file.read()`: the thresholds are validated; the
\* client then has another upload to send
UploadBegin ==
    /\ IF ~InUnitInterval(request.min_support)
       THEN /\ response' = Some(HTTPException(400, "min_support must be between 0 and 1"))
            /\ UNCHANGED suspended
       ELSE IF ~InUnitInterval(request.min_confidence)
       THEN /\ response' = Some(HTTPException(400, "min_confidence must be between 0 and 1"))
            /\ UNCHANGED suspended
       ELSE /\ suspended' = suspended \cup {request}
            /\ UNCHANGED response
    /\ request' \in UploadRequests
    /\ UNCHANGED <<State, encoding>>

\* POST /upload from `await file.read()` to its end
UploadResume ==
    \E r \in suspended :
        \E out \in {upload_dataset(State, r.file, r.min_support, r.min_confidence)} :
            /\ State' = out.state
            /\ response' = Some(out.resp)
            /\ suspended' = suspended \ {r}
            /\ UNCHANGED <<request, encoding>>

Answer(content) ==
    /\ response' = Some(content)
    /\ UNCHANGED <<State, request, encoding, suspended>>

GetRules == Answer(get_rules(State))

GetAssociationRules == Answer(get_association_rules(State))

GetFrequentItemsets ==
    Answer(Content("/frequent-itemsets", 200,
                   [frequent_itemsets |-> get_frequent_itemsets(State)]))

GetHeatmap == \E draw \in HeatDraws : Answer(get_heatmap(State, draw))

GetCooccurrence == Answer(get_cooccurrence(State))

GetMeta == Answer(get_meta(State))

GetSupportSuggestions == Answer(get_support_suggestions(State))

GetInsights == Answer(get_insights(State))

NextServe ==
    \/ UploadBegin
    \/ UploadResume
    \/ GetSampleDataset
    \/ GetRules
    \/ GetAssociationRules
    \/ GetFrequentItemsets
    \/ GetHeatmap
    \/ GetCooccurrence
    \/ GetMeta
    \/ GetSupportSuggestions
    \/ GetInsights

SpecServe == InitServe /\ [][NextServe]_vars

(***************************************************************************)
(* C21: under every interleaving of uploads, sample loads and readers,     *)
(* where an upload yields only at its await, STATE is at every step the    *)
(* initial dictionary or the complete result of one analysis, its fields   *)
(* agreeing with each other, and what a reader answers is what it answers  *)
(* on such a result: never on a mix of two.                                *)
(***************************************************************************)
\* the results of the analyses the requests can complete, and the initial one
CompleteAnalyses ==
    {InitialSTATE}
    \cup {SampleAnalyses[id].state : id \in DatasetIds}
    \cup {upload_dataset(InitialSTATE, r.file, r.min_support, r.min_confidence).state :
             r \in UploadRequests}

\* the fields of st describe one matrix
OneAnalysis(st) ==
    \/ st = InitialSTATE
    \/ /\ \A k \in DOMAIN st : st[k] # None
       /\ st.meta[1].n_transactions = Len(st.df_encoded[1].values)
       /\ st.meta[1].n_items = Len(st.df_encoded[1].columns)
       /\ st.meta[1].n_frequent_itemsets = Len(st.frequent_itemsets[1])
       /\ st.meta[1].n_rules = Len(st.rules[1])
       /\ st.cooccurrence[1].columns = st.df_encoded[1].columns
       /\ \A i \in 1..Len(st.frequent_itemsets[1]) :
             REq(st.frequent_itemsets[1][i].support,
                 TrueSupport(st.df_encoded[1], Range(st.frequent_itemsets[1][i].itemsets)))
       /\ \A i \in 1..Len(st.rules[1]) :
             REq(st.rules[1][i].support,
                 TrueSupport(st.df_encoded[1],
                             Range(st.rules[1][i].antecedents) \cup Range(st.rules[1][i].consequents)))

ReaderAnswers(st) ==
    {get_rules(st), get_association_rules(st), get_cooccurrence(st), get_meta(st),
     get_support_suggestions(st), get_insights(st),
     Content("/frequent-itemsets", 200, [frequent_itemsets |-> get_frequent_itemsets(st)])}
    \cup {get_heatmap(st, draw) : draw \in HeatDraws}

\* every answer a reader gives on a complete result, computed once
CompleteAnswers == UNION {ReaderAnswers(st) : st \in CompleteAnalyses}

FromReader == response # None /\ "route" \in DOMAIN response[1]

C21_NoPartialResults ==
    /\ State \in CompleteAnalyses
    /\ OneAnalysis(State)
    /\ FromReader => response[1] \in CompleteAnswers

\* /insights answered on a sample analysis while three uploads wait at their
\* await
C21_Witness ==
    /\ Cardinality(suspended) = 3
    /\ request.min_support = Rat(3, 2)
    /\ State = SampleAnalyses.electronics.state
    /\ response = Some(get_insights(State))

(***************************************************************************)
(* C22: once an analysis has completed, GET /rules answers with rules of   *)
(* the analysis STATE holds and nothing else: every rule of the answer is  *)
(* a stored rule, and the answer has no rule when none is stored.          *)
(***************************************************************************)
\* the answered rule is the stored rule
SameRule(answered, stored_rule) ==
    /\ answered.antecedent = stored_rule.antecedents
    /\ answered.consequent = stored_rule.consequents
    /\ answered.support = stored_rule.support
    /\ answered.confidence = stored_rule.confidence
    /\ answered.lift = stored_rule.lift

OnlyStoredRules(answered, stored) ==
    /\ \A i \in 1..Len(answered) : \E j \in 1..Len(stored) : SameRule(answered[i], stored[j])
    /\ stored = <<>> => answered = <<>>

C22_RulesOfLastAnalysis ==
    [][(GetRules /\ State.rules # None) =>
          OnlyStoredRules(response'[1].content.rules, State.rules[1])]_vars
====
